---- MODULE Spec2Model ----
(***************************************************************************)
(* Restaurant food ordering system (restaurant-food-ordering-system/       *)
(* main.py): the pydantic models FoodItemBase / FoodItem / OrderItem /     *)
(* Customer / Order, the two in-memory stores menu_db and orders_db, the   *)
(* shared itertools.count(1) id generator and the request handlers.        *)
(*                                                                         *)
(* Money (Decimal) is an integer number of thousandths of a dollar, so     *)
(* that a value with three fractional digits can be offered as input and   *)
(* Decimal arithmetic stays exact.  Optional[int] is a sequence of length  *)
(* 0 (None) or 1.  Strings whose characters matter are sequences of        *)
(* one-character strings.  The created_at / updated_at timestamps and the  *)
(* encoding of the response body are not part of the model: each handler   *)
(* is followed up to its return statement.                                 *)
(***************************************************************************)
EXTENDS Integers, Sequences, FiniteSets, TLC

VARIABLES menu_db, orders_db, id_generator, last, created, deleted, th

vars == <<menu_db, orders_db, id_generator, last, created, deleted, th>>

(* ---------------------------- bounds ----------------------------------- *)

\* ids the generator hands out before the model stops creating
MaxId == 2

(* ---------------------------- helpers ---------------------------------- *)

Chars(n, c) == [i \in 1..n |-> c]

Letters ==
  {"a","b","c","d","e","f","g","h","i","j","k","l","m","n","o","p","q","r","s","t","u","v","w","x","y","z",
   "A","B","C","D","E","F","G","H","I","J","K","L","M","N","O","P","Q","R","S","T","U","V","W","X","Y","Z"}

Digits == {"0","1","2","3","4","5","6","7","8","9"}

\* a generator that hands out its value without moving on
advance_stuck(gen) == gen

\* next(id_generator) on itertools.count(1): the value returned and the
\* generator's state afterwards
next_value(gen) == gen

advance(gen) == gen + 1

\* dict[key] = value
put(db, k, v) == [x \in DOMAIN db \cup {k} |-> IF x = k THEN v ELSE db[x]]

\* del dict[key]
del(db, k) == [x \in DOMAIN db \ {k} |-> db[x]]

(* ---------------------------- menu items ------------------------------- *)

FoodCategory == {"appetizer", "main_course", "dessert", "beverage", "salad"}

\* re.match(r'^[a-zA-Z ]+$', v): one or more letters or spaces; in Python
\* the $ also matches just before one trailing newline
validate_name(v) ==
  LET body == IF Len(v) > 0 /\ v[Len(v)] = "\n" THEN SubSeq(v, 1, Len(v) - 1) ELSE v
  IN  /\ Len(body) >= 1
      /\ \A i \in 1..Len(body) : body[i] \in Letters \cup {" "}

\* v.quantize(Decimal('0.01')) == v  and  1.00 <= v <= 100.00
validate_price(v) ==
  /\ v % 10 = 0
  /\ ~(v < 1000 \/ v > 100000)

\* the calorie rule with > in place of >=
custom_validations_gt(m) ==
  /\ ~(m.category \in {"dessert", "beverage"} /\ m.is_spicy)
  /\ ~(Len(m.calories) = 1 /\ m.is_vegetarian /\ m.calories[1] > 800)
  /\ ~(m.category = "beverage" /\ m.preparation_time > 10)

\* the three cross-field rules of the model validator; TRUE when none raises
custom_validations(m) ==
  /\ ~(m.category \in {"dessert", "beverage"} /\ m.is_spicy)
  /\ ~(Len(m.calories) = 1 /\ m.is_vegetarian /\ m.calories[1] >= 800)
  /\ ~(m.category = "beverage" /\ m.preparation_time > 10)

\* FoodItemBase(**data) constructs without a validation error
FoodItemBase(m) ==
  /\ Len(m.name) >= 3 /\ Len(m.name) <= 100
  /\ Len(m.description) >= 10 /\ Len(m.description) <= 500
  /\ m.category \in FoodCategory
  /\ m.price > 0
  /\ m.preparation_time >= 1 /\ m.preparation_time <= 120
  /\ Len(m.ingredients) >= 1
  /\ (Len(m.calories) = 1 => m.calories[1] > 0)
  /\ validate_name(m.name)
  /\ validate_price(m.price)
  /\ custom_validations(m)

\* a FoodItem built without the id argument: the default factory draws one
FoodItem_default_id(new_id, m) ==
  [id |-> new_id + 1, name |-> m.name, description |-> m.description,
   category |-> m.category, price |-> m.price, is_available |-> m.is_available,
   preparation_time |-> m.preparation_time, ingredients |-> m.ingredients,
   calories |-> m.calories, is_vegetarian |-> m.is_vegetarian, is_spicy |-> m.is_spicy]

\* FoodItem(id=new_id, **item.model_dump())
FoodItem(new_id, m) ==
  [id |-> new_id, name |-> m.name, description |-> m.description,
   category |-> m.category, price |-> m.price, is_available |-> m.is_available,
   preparation_time |-> m.preparation_time, ingredients |-> m.ingredients,
   calories |-> m.calories, is_vegetarian |-> m.is_vegetarian, is_spicy |-> m.is_spicy]

\* the upper boundary of Mid-range made exclusive
price_category_lt(m) ==
  IF m.price < 10000 THEN "Budget"
  ELSE IF m.price < 25000 THEN "Mid-range"
  ELSE "Premium"

price_category(m) ==
  IF m.price < 10000 THEN "Budget"
  ELSE IF m.price <= 25000 THEN "Mid-range"
  ELSE "Premium"

dietary_info(m) ==
  (IF m.is_vegetarian THEN <<"Vegetarian">> ELSE <<>>) \o
  (IF m.is_spicy THEN <<"Spicy">> ELSE <<>>)

(* ---------------------------- orders ----------------------------------- *)

OrderStatus == {"pending", "confirmed", "ready", "delivered"}

\* Decimal field with max_digits=6, decimal_places=2, gt=0
Decimal62(v) == v % 10 = 0 /\ v > 0 /\ v <= 9999990

OrderItem(oi) ==
  /\ oi.menu_item_id > 0
  /\ Len(oi.menu_item_name) >= 1 /\ Len(oi.menu_item_name) <= 100
  /\ oi.quantity > 0 /\ oi.quantity <= 10
  /\ Decimal62(oi.unit_price)

item_total(oi) == oi.unit_price * oi.quantity

Customer(c) ==
  /\ Len(c.name) >= 3 /\ Len(c.name) <= 100
  /\ Len(c.phone) = 10
  /\ \A i \in 1..Len(c.phone) : c.phone[i] \in Digits

RECURSIVE SumTotals(_)
SumTotals(items) ==
  IF items = <<>> THEN 0 ELSE item_total(Head(items)) + SumTotals(Tail(items))

\* the property Order.order_total
order_total(o) == SumTotals(o.items)

\* The class body binds total_price twice: first to Field(..., gt=0, ...),
\* then to a property.  The annotation total_price: Decimal stays, so
\* total_price is a model field whose default is the property object and
\* whose Field constraints are gone.  A body without total_price is
\* accepted with that default; a supplied one is kept as given.
PropertyObject == [kind |-> "property", v |-> 0]
DecimalValue(v) == [kind |-> "decimal", v |-> v]

\* Order validated from a request body (the handler's parameter)
OrderBody(o) ==
  /\ Customer(o.customer)
  /\ Len(o.items) >= 1
  /\ \A i \in 1..Len(o.items) : OrderItem(o.items[i])
  /\ o.status \in OrderStatus

\* Order(id=..., **order.model_dump()) constructs: the dumped total_price
\* has to validate as a Decimal, which the property object does not
OrderRevalidates(o) == OrderBody(o) /\ o.total_price.kind = "decimal"

\* Order(id=new_id, **order.model_dump()): Order declares no id field and
\* pydantic ignores unknown keyword arguments
Order(new_id, o) ==
  [customer |-> o.customer, items |-> o.items, total_price |-> o.total_price,
   status |-> o.status]

(* ---------------------------- request inputs --------------------------- *)

BaseItem ==
  [name |-> <<"T","e","a">>, description |-> Chars(10, "x"), category |-> "main_course",
   price |-> 9990, is_available |-> TRUE, preparation_time |-> 10,
   ingredients |-> <<"water">>, calories |-> <<>>, is_vegetarian |-> FALSE,
   is_spicy |-> FALSE]

\* rule 1 (dessert/beverage not spicy): category x is_spicy
SpicyItems ==
  {[BaseItem EXCEPT !.category = c, !.is_spicy = s] :
     c \in {"main_course", "dessert", "beverage"}, s \in BOOLEAN}

\* rule 2 (vegetarian calories < 800): is_vegetarian x calories
CalorieItems ==
  {[BaseItem EXCEPT !.is_vegetarian = g, !.calories = k] :
     g \in BOOLEAN, k \in {<<799>>, <<800>>}}

\* rule 3 (beverage preparation_time <= 10): category x preparation_time
PrepItems ==
  {[BaseItem EXCEPT !.category = c, !.preparation_time = p] :
     c \in {"main_course", "beverage"}, p \in {10, 11}}

\* 0.50, 9.995, 25.01, 100.01 (BaseItem has 9.99; PriceSpec sweeps the range)
PriceItems ==
  {[BaseItem EXCEPT !.price = p] : p \in {500, 9995, 25010, 100010}}

FieldItems ==
  { [BaseItem EXCEPT !.name = <<"T","3","a">>],
    [BaseItem EXCEPT !.name = <<"T","e">>],
    [BaseItem EXCEPT !.description = Chars(9, "x")],
    [BaseItem EXCEPT !.category = "pizza"],
    [BaseItem EXCEPT !.preparation_time = 0],
    [BaseItem EXCEPT !.ingredients = <<>>],
    [BaseItem EXCEPT !.calories = <<0>>] }

ItemInputs == SpicyItems \cup CalorieItems \cup PrepItems \cup PriceItems \cup FieldItems

Line(q, p) ==
  [menu_item_id |-> 1, menu_item_name |-> <<"T","e","a">>, quantity |-> q, unit_price |-> p]

BaseOrder ==
  [customer |-> [name |-> <<"A","n","n">>, phone |-> Chars(10, "5")],
   items |-> <<Line(3, 9990), Line(1, 10)>>,
   total_price |-> DecimalValue(30000),
   status |-> "pending"]

\* total_price supplied and right, supplied and wrong, not supplied
TotalOrders ==
  {[BaseOrder EXCEPT !.total_price = t] :
     t \in {DecimalValue(30000), DecimalValue(5000), PropertyObject}}

BadOrders ==
  { [BaseOrder EXCEPT !.items = <<>>],
    [BaseOrder EXCEPT !.items = <<Line(11, 9990)>>],
    [BaseOrder EXCEPT !.items = <<Line(1, 9995)>>],
    [BaseOrder EXCEPT !.items = <<Line(1, 0)>>],
    [BaseOrder EXCEPT !.customer.phone = Chars(9, "5")],
    [BaseOrder EXCEPT !.customer.name = <<"A","n">>],
    [BaseOrder EXCEPT !.status = "cooking"] }

OrderInputs == TotalOrders \cup BadOrders

\* path parameters offered to the handlers; Path(..., ge=1) rejects 0, and
\* MaxId is never created before the generator reaches it
IdInputs == 0..MaxId

(* ---------------------------- handlers --------------------------------- *)

\* Outcome of a request: "ok" when the handler reaches its return
\* statement, "NotFound" for HTTPException(404), "ValidationError" when
\* request validation or a model constructor rejects the data.

\* worker threads of the server's thread pool (the handlers are plain def
\* functions, so the framework runs each request on a pool thread)
Threads == {1, 2}

Idle == [pc |-> "idle", id |-> 0, item |-> BaseItem, order |-> BaseOrder]

Init ==
  /\ menu_db = <<>>
  /\ orders_db = <<>>
  /\ id_generator = 1
  /\ last = [op |-> "none", id |-> 0, result |-> "none"]
  /\ created = <<>>
  /\ deleted = {}
  /\ th = [t \in Threads |-> Idle]

Response(op, id, result) == [op |-> op, id |-> id, result |-> result]

\* GET /menu/{item_id}
get_item_h(db, item_id) ==
  IF item_id < 1 THEN "ValidationError"
  ELSE IF item_id \notin DOMAIN db THEN "NotFound"
  ELSE "ok"

get_item(item_id) ==
  /\ last' = Response("get_item", item_id, get_item_h(menu_db, item_id))
  /\ UNCHANGED <<menu_db, orders_db, id_generator, created, deleted, th>>

\* POST /menu: the body is validated as FoodItemBase before the handler
\* runs; the handler then draws the id, builds the FoodItem and stores it
add_item_h(db, gen, item) ==
  IF ~FoodItemBase(item)
    THEN [db |-> db, gen |-> gen, result |-> "ValidationError", new |-> <<>>]
  ELSE IF ~FoodItemBase(FoodItem(next_value(gen), item))
    THEN [db |-> db, gen |-> advance(gen), result |-> "ValidationError", new |-> <<>>]
  ELSE [db |-> put(db, next_value(gen), FoodItem(next_value(gen), item)), gen |-> advance(gen), result |-> "ok",
        new |-> <<[kind |-> "menu", id |-> next_value(gen)]>>]

add_item(item) ==
  /\ id_generator <= MaxId
  /\ LET r == add_item_h(menu_db, id_generator, item)
     IN  /\ menu_db' = r.db
         /\ id_generator' = r.gen
         /\ created' = created \o r.new
         /\ last' = Response("add_item", 0, r.result)
  /\ UNCHANGED <<orders_db, deleted, th>>

\* update_item without the existence check
update_item_h_upsert(db, item_id, item) ==
  IF item_id < 1 \/ ~FoodItemBase(item) THEN [db |-> db, result |-> "ValidationError"]
  ELSE [db |-> put(db, item_id, FoodItem(item_id, item)), result |-> "ok"]

\* PUT /menu/{item_id}
update_item_h(db, item_id, item) ==
  IF item_id < 1 \/ ~FoodItemBase(item) THEN [db |-> db, result |-> "ValidationError"]
  ELSE IF item_id \notin DOMAIN db THEN [db |-> db, result |-> "NotFound"]
  ELSE IF ~FoodItemBase(FoodItem(item_id, item)) THEN [db |-> db, result |-> "ValidationError"]
  ELSE [db |-> put(db, item_id, FoodItem(item_id, item)), result |-> "ok"]

update_item(item_id, item) ==
  /\ LET r == update_item_h(menu_db, item_id, item)
     IN  /\ menu_db' = r.db
         /\ last' = Response("update_item", item_id, r.result)
  /\ UNCHANGED <<orders_db, id_generator, created, deleted, th>>

\* DELETE /menu/{item_id}
delete_item_h(db, item_id) ==
  IF item_id < 1 THEN [db |-> db, result |-> "ValidationError"]
  ELSE IF item_id \notin DOMAIN db THEN [db |-> db, result |-> "NotFound"]
  ELSE [db |-> del(db, item_id), result |-> "ok"]

delete_item(item_id) ==
  /\ LET r == delete_item_h(menu_db, item_id)
     IN  /\ menu_db' = r.db
         /\ deleted' = IF r.result = "ok" THEN deleted \cup {item_id} ELSE deleted
         /\ last' = Response("delete_item", item_id, r.result)
  /\ UNCHANGED <<orders_db, id_generator, created, th>>

\* create_order that stores the request body before rebuilding it
create_order_h_store_first(db, gen, order) ==
  IF ~OrderBody(order)
    THEN [db |-> db, gen |-> gen, result |-> "ValidationError", new |-> <<>>]
  ELSE IF ~OrderRevalidates(order)
    THEN [db |-> put(db, next_value(gen), order), gen |-> advance(gen),
          result |-> "ValidationError", new |-> <<>>]
  ELSE [db |-> put(db, next_value(gen), Order(next_value(gen), order)), gen |-> advance(gen),
        result |-> "ok", new |-> <<[kind |-> "order", id |-> next_value(gen)]>>]

\* POST /orders: the body is validated as Order before the handler runs;
\* the handler draws the id first and only then rebuilds the Order
create_order_h(db, gen, order) ==
  IF ~OrderBody(order)
    THEN [db |-> db, gen |-> gen, result |-> "ValidationError", new |-> <<>>]
  ELSE IF ~OrderRevalidates(order)
    THEN [db |-> db, gen |-> advance(gen), result |-> "ValidationError", new |-> <<>>]
  ELSE [db |-> put(db, next_value(gen), Order(next_value(gen), order)), gen |-> advance(gen), result |-> "ok",
        new |-> <<[kind |-> "order", id |-> next_value(gen)]>>]

create_order(order) ==
  /\ id_generator <= MaxId
  /\ LET r == create_order_h(orders_db, id_generator, order)
     IN  /\ orders_db' = r.db
         /\ id_generator' = r.gen
         /\ created' = created \o r.new
         /\ last' = Response("create_order", 0, r.result)
  /\ UNCHANGED <<menu_db, deleted, th>>

\* GET /orders/{order_id}
get_order_h(db, order_id) ==
  IF order_id < 1 THEN "ValidationError"
  ELSE IF order_id \notin DOMAIN db THEN "NotFound"
  ELSE "ok"

get_order(order_id) ==
  /\ last' = Response("get_order", order_id, get_order_h(orders_db, order_id))
  /\ UNCHANGED <<menu_db, orders_db, id_generator, created, deleted, th>>

\* PUT /orders/{order_id}
update_order_h(db, order_id, order) ==
  IF order_id < 1 \/ ~OrderBody(order) THEN [db |-> db, result |-> "ValidationError"]
  ELSE IF order_id \notin DOMAIN db THEN [db |-> db, result |-> "NotFound"]
  ELSE IF ~OrderRevalidates(order) THEN [db |-> db, result |-> "ValidationError"]
  ELSE [db |-> put(db, order_id, Order(order_id, order)), result |-> "ok"]

update_order(order_id, order) ==
  /\ LET r == update_order_h(orders_db, order_id, order)
     IN  /\ orders_db' = r.db
         /\ last' = Response("update_order", order_id, r.result)
  /\ UNCHANGED <<menu_db, id_generator, created, deleted, th>>

Next ==
  \/ \E i \in IdInputs : get_item(i)
  \/ \E m \in ItemInputs : add_item(m)
  \/ \E i \in IdInputs, m \in ItemInputs : update_item(i, m)
  \/ \E i \in IdInputs : delete_item(i)
  \/ \E o \in OrderInputs : create_order(o)
  \/ \E i \in IdInputs : get_order(i)
  \/ \E i \in IdInputs, o \in OrderInputs : update_order(i, o)

Spec == Init /\ [][Next]_vars

(* ---------------------------- concurrent handlers ---------------------- *)

\* The same handlers, one statement that touches shared state per step.
\* next(id_generator), `in', dict assignment and del each run as one step
\* under the interpreter lock; a thread switch can fall between any two of
\* them.  A request that fails request validation never enters a handler.

ConcItems == {BaseItem, [BaseItem EXCEPT !.price = 25000]}

ConcOrders == {BaseOrder, [BaseOrder EXCEPT !.total_price = PropertyObject]}

ConcIds == 1..MaxId

Goto(t, pc, id, item, order) ==
  th' = [th EXCEPT ![t] = [pc |-> pc, id |-> id, item |-> item, order |-> order]]

\* add_item is entered with a validated body
t_add_item(t, item) ==
  /\ th[t].pc = "idle"
  /\ id_generator <= MaxId
  /\ FoodItemBase(item)
  /\ Goto(t, "add_next", 0, item, BaseOrder)
  /\ UNCHANGED <<menu_db, orders_db, id_generator, last, created, deleted>>

\* new_id = next(id_generator)
t_add_next(t) ==
  /\ th[t].pc = "add_next"
  /\ id_generator' = advance(id_generator)
  /\ Goto(t, "add_store", next_value(id_generator), th[t].item, BaseOrder)
  /\ UNCHANGED <<menu_db, orders_db, last, created, deleted>>

\* menu_db[new_id] = FoodItem(id=new_id, ...)
t_add_store(t) ==
  /\ th[t].pc = "add_store"
  /\ menu_db' = put(menu_db, th[t].id, FoodItem(th[t].id, th[t].item))
  /\ created' = Append(created, [kind |-> "menu", id |-> th[t].id])
  /\ th' = [th EXCEPT ![t] = Idle]
  /\ UNCHANGED <<orders_db, id_generator, last, deleted>>

t_update_item(t, item_id, item) ==
  /\ th[t].pc = "idle"
  /\ FoodItemBase(item)
  /\ Goto(t, "upd_check", item_id, item, BaseOrder)
  /\ UNCHANGED <<menu_db, orders_db, id_generator, last, created, deleted>>

\* if item_id not in menu_db: raise HTTPException(404)
t_upd_check(t) ==
  /\ th[t].pc = "upd_check"
  /\ IF th[t].id \notin DOMAIN menu_db
       THEN th' = [th EXCEPT ![t] = Idle]
       ELSE th' = [th EXCEPT ![t].pc = "upd_store"]
  /\ UNCHANGED <<menu_db, orders_db, id_generator, last, created, deleted>>

\* menu_db[item_id] = FoodItem(id=item_id, ...)
t_upd_store(t) ==
  /\ th[t].pc = "upd_store"
  /\ menu_db' = put(menu_db, th[t].id, FoodItem(th[t].id, th[t].item))
  /\ th' = [th EXCEPT ![t] = Idle]
  /\ UNCHANGED <<orders_db, id_generator, last, created, deleted>>

t_delete_item(t, item_id) ==
  /\ th[t].pc = "idle"
  /\ Goto(t, "del_check", item_id, BaseItem, BaseOrder)
  /\ UNCHANGED <<menu_db, orders_db, id_generator, last, created, deleted>>

\* if item_id not in menu_db: raise HTTPException(404)
t_del_check(t) ==
  /\ th[t].pc = "del_check"
  /\ IF th[t].id \notin DOMAIN menu_db
       THEN th' = [th EXCEPT ![t] = Idle]
       ELSE th' = [th EXCEPT ![t].pc = "del_del"]
  /\ UNCHANGED <<menu_db, orders_db, id_generator, last, created, deleted>>

\* del menu_db[item_id]; KeyError when another delete got there first
t_del_del(t) ==
  /\ th[t].pc = "del_del"
  /\ IF th[t].id \in DOMAIN menu_db
       THEN /\ menu_db' = del(menu_db, th[t].id)
            /\ deleted' = deleted \cup {th[t].id}
       ELSE UNCHANGED <<menu_db, deleted>>
  /\ th' = [th EXCEPT ![t] = Idle]
  /\ UNCHANGED <<orders_db, id_generator, last, created>>

\* create_order is entered with a validated body
t_create_order(t, order) ==
  /\ th[t].pc = "idle"
  /\ id_generator <= MaxId
  /\ OrderBody(order)
  /\ Goto(t, "ord_next", 0, BaseItem, order)
  /\ UNCHANGED <<menu_db, orders_db, id_generator, last, created, deleted>>

\* new_id = next(id_generator); new_order = Order(id=new_id, ...) may raise
t_ord_next(t) ==
  /\ th[t].pc = "ord_next"
  /\ id_generator' = advance(id_generator)
  /\ IF OrderRevalidates(th[t].order)
       THEN Goto(t, "ord_store", next_value(id_generator), BaseItem, th[t].order)
       ELSE th' = [th EXCEPT ![t] = Idle]
  /\ UNCHANGED <<menu_db, orders_db, last, created, deleted>>

\* orders_db[new_id] = new_order
t_ord_store(t) ==
  /\ th[t].pc = "ord_store"
  /\ orders_db' = put(orders_db, th[t].id, Order(th[t].id, th[t].order))
  /\ created' = Append(created, [kind |-> "order", id |-> th[t].id])
  /\ th' = [th EXCEPT ![t] = Idle]
  /\ UNCHANGED <<menu_db, id_generator, last, deleted>>

ConcNext ==
  \/ \E t \in Threads, m \in ConcItems : t_add_item(t, m)
  \/ \E t \in Threads : t_add_next(t)
  \/ \E t \in Threads : t_add_store(t)
  \/ \E t \in Threads, i \in ConcIds, m \in ConcItems : t_update_item(t, i, m)
  \/ \E t \in Threads : t_upd_check(t)
  \/ \E t \in Threads : t_upd_store(t)
  \/ \E t \in Threads, i \in ConcIds : t_delete_item(t, i)
  \/ \E t \in Threads : t_del_check(t)
  \/ \E t \in Threads : t_del_del(t)
  \/ \E t \in Threads, o \in ConcOrders : t_create_order(t, o)
  \/ \E t \in Threads : t_ord_next(t)
  \/ \E t \in Threads : t_ord_store(t)

ConcSpec == Init /\ [][ConcNext]_vars

TypeOK ==
  /\ id_generator \in 1..(MaxId + Cardinality(Threads) + 1)
  /\ DOMAIN menu_db \subseteq 1..(MaxId + Cardinality(Threads))
  /\ DOMAIN orders_db \subseteq 1..(MaxId + Cardinality(Threads))
  /\ \A t \in Threads : th[t].pc \in {"idle", "add_next", "add_store", "upd_check",
        "upd_store", "del_check", "del_del", "ord_next", "ord_store"}

(* ---------------------------- price sweep ------------------------------ *)

\* largest price offered, in cents (100.10)
MaxCents == 10010

PricedItem(cents) == [BaseItem EXCEPT !.price = 10 * cents]

\* the state after one add_item whose price is any amount up to MaxCents
PriceInit ==
  \E c \in 0..MaxCents :
    LET r == add_item_h(<<>>, 1, PricedItem(c))
    IN  /\ r.result = "ok"
        /\ menu_db = r.db
        /\ id_generator = r.gen
        /\ created = r.new
        /\ last = Response("add_item", 0, r.result)
        /\ orders_db = <<>>
        /\ deleted = {}
        /\ th = [t \in Threads |-> Idle]

PriceNext == \E i \in 1..2 : get_item(i)

PriceSpec == PriceInit /\ [][PriceNext]_vars

(* ---------------------------- properties ------------------------------- *)

Failures == {"ValidationError", "NotFound"}

\* C1: every menu item in the menu store satisfies the three cross-field
\* rules: dessert or beverage is not spicy; vegetarian with calories present
\* has calories < 800; beverage has preparation_time <= 10.
C1_RulesHold ==
  \A k \in DOMAIN menu_db :
    LET m == menu_db[k]
    IN  /\ (m.category \in {"dessert", "beverage"} => ~m.is_spicy)
        /\ (m.is_vegetarian /\ Len(m.calories) = 1 => m.calories[1] < 800)
        /\ (m.category = "beverage" => m.preparation_time <= 10)

\* a beverage and a vegetarian item with calories are stored, and an update
\* of the beverage has just been rejected
C1_Witness ==
  /\ last.op = "update_item" /\ last.result = "ValidationError"
  /\ last.id \in DOMAIN menu_db /\ menu_db[last.id].category = "beverage"
  /\ \E k \in DOMAIN menu_db : menu_db[k].is_vegetarian /\ Len(menu_db[k].calories) = 1

\* C2: a request that ends in a validation error or in NotFound leaves the
\* menu store and the order store exactly as they were.
C2_FailureKeepsStores ==
  [][last'.result \in Failures => menu_db' = menu_db /\ orders_db' = orders_db]_vars

\* the order store holds an order and a create_order has just been rejected
\* after passing request validation (the generator moved on)
C2_Witness ==
  /\ last.op = "create_order" /\ last.result = "ValidationError"
  /\ orders_db # <<>>
  /\ id_generator > Len(created) + 1

\* C3: the ids of the successfully created entities, menu items and orders
\* together, are exactly 1, 2, 3, ... in creation order.
C3_IdsAreOneTwoThree ==
  \A i \in 1..Len(created) : created[i].id = i

MenuOps == {"get_item", "update_item", "delete_item"}

C5_TotalIsSum ==
  \A k \in DOMAIN orders_db :
    LET o == orders_db[k]
    IN  /\ o.total_price = DecimalValue(SumTotals(o.items))
        /\ DecimalValue(order_total(o)) = o.total_price

\* C6: with concurrent handlers no two completed creates share an id, and
\* every completed create is in its store under its own id (a menu item
\* unless it was deleted since).
C6_DistinctIds ==
  /\ \A i, j \in 1..Len(created) : i # j => created[i].id # created[j].id
  /\ \A i \in 1..Len(created) :
       LET e == created[i]
       IN  IF e.kind = "menu"
             THEN \/ e.id \in deleted
                  \/ e.id \in DOMAIN menu_db /\ menu_db[e.id].id = e.id
             ELSE e.id \in DOMAIN orders_db

\* a menu item and an order were both created, and the creates finished in
\* the opposite order to the one in which they drew their ids
C6_Witness ==
  /\ \E i, j \in 1..Len(created) : i < j /\ created[i].id > created[j].id
  /\ \E i, j \in 1..Len(created) : created[i].kind = "menu" /\ created[j].kind = "order"
  /\ deleted = {}

\* C7: every stored menu item carries a positive id equal to its key, and
\* update_item changes neither the item's id nor the set of keys.
C7_IdIsKey ==
  /\ [](\A k \in DOMAIN menu_db : k > 0 /\ menu_db[k].id = k)
  /\ [][last'.op = "update_item" =>
          /\ DOMAIN menu_db' = DOMAIN menu_db
          /\ \A k \in DOMAIN menu_db : menu_db'[k].id = menu_db[k].id]_vars

\* an update_item has just replaced the content stored under id 2
C7_Witness ==
  /\ last = Response("update_item", 2, "ok")
  /\ menu_db[2].price = 25010
  /\ 1 \in DOMAIN menu_db /\ menu_db[1].price = 9990

\* C8: every stored order carries an id field equal to the key it is
\* stored under.
C8_OrderHasId ==
  \A k \in DOMAIN orders_db :
    /\ "id" \in DOMAIN orders_db[k]
    /\ orders_db[k].id = k

\* C9: for every stored menu item exactly one bucket applies: Budget when
\* price < 10, Mid-range when 10 <= price <= 25, Premium when price > 25.
C9_PriceBuckets ==
  \A k \in DOMAIN menu_db :
    LET p == menu_db[k].price
        b == price_category(menu_db[k])
    IN  /\ p >= 1000 /\ p <= 100000 /\ p % 10 = 0
        /\ b \in {"Budget", "Mid-range", "Premium"}
        /\ (b = "Budget" <=> p < 10000)
        /\ (b = "Mid-range" <=> (10000 <= p /\ p <= 25000))
        /\ (b = "Premium" <=> p > 25000)

\* the item priced 25.00 is stored and has been read
C9_Witness ==
  /\ last = Response("get_item", 1, "ok")
  /\ menu_db[1].price = 25000

\* C10: the existence check and the write of update_item are not separated
\* by a delete: the write of update_item never puts back a key that is no
\* longer in the menu store.
C10_UpdateNeverReinserts ==
  [][\A t \in Threads :
       th[t].pc = "upd_store" /\ th'[t].pc = "idle" =>
         DOMAIN menu_db' = DOMAIN menu_db]_vars

====
